---- MODULE Spec2Model ----
(***************************************************************************)
(* A model of the two helper programs of AgIsoStack++:                     *)
(*   scripts/code_gen_ddi_database.py  the DDI table generator, together   *)
(*                                     with the C++ lookup it generates;   *)
(*   generateArduinoLibrary.py         the Arduino library packager.       *)
(*                                                                         *)
(* Text is modelled as a sequence of letters.  The letters of the model    *)
(* are the characters and words the programs tell apart (" ", "\n", ",",   *)
(* ".", digits, and the marker words "DD", "Entity", "Unit:", ...); every  *)
(* string operation of the source (in, split, strip, replace) is defined   *)
(* on these sequences the way Python defines it on characters.             *)
(***************************************************************************)
EXTENDS Integers, Sequences, FiniteSets, TLC

VARIABLES
    pc,            \* position of the running program
    remote,        \* the export served at exportURL (a sequence of lines)
    today,         \* datetime.today() of the current run
    fs,            \* the generator's three files: name -> [exists, data]
    numberOfDDIs,  \* code_gen_ddi_database.py:21
    processUnit,   \* code_gen_ddi_database.py:114
    lineNo,        \* l_no of the rendering pass, counted from 1
    run,           \* which run of the generator this is (1 or 2)
    prev,          \* the output files as the previous run left them
    ran,           \* the steps the current run has executed
    table,         \* DDI_ENTRIES of the generated C++ lookup
    ident,         \* dataDictionaryIdentifier passed to get_entry
    idx,           \* i of get_entry's loop
    result,        \* what get_entry returned
    tree,          \* the source tree the packager walks: a set of [dir, name]
    lib,           \* arduino_library/: [exists, files]
    pruned,        \* the files the prune loop removed ("Pruning file ...")
    headers,       \* generateArduinoLibrary.py:136
    umbrella,      \* the #include lines of AgIsoStack.hpp, in order
    properties,    \* whether library.properties was written
    patched        \* the files fixup_header_paths has rewritten

genVars_rest == <<remote, today, fs, numberOfDDIs, processUnit, lineNo, run, prev, ran>>
genVars == <<pc, genVars_rest>>
lookupVars == <<table, ident, idx, result>>
packVars == <<tree, lib, pruned, headers, umbrella, properties, patched>>
vars == <<genVars, lookupVars, packVars>>

----------------------------------------------------------------------------
(* Bounds of the model.                                                    *)

MaxLines == 3
MaxRerunLines == 2
MaxEntries == 3
MaxTreeFiles == 3

----------------------------------------------------------------------------
(* Python's string operations, on sequences of letters.                    *)

sp == " "
nl == "\n"
Whitespace == {sp, nl}

\* p in s
Contains(s, p) ==
    \E i \in 1..(Len(s) - Len(p) + 1) : SubSeq(s, i, i + Len(p) - 1) = p

\* s.find(c) for a one-letter c, counted from 1; 0 when c is not in s
Find(s, c) ==
    IF \E i \in 1..Len(s) : s[i] = c
    THEN CHOOSE i \in 1..Len(s) : s[i] = c /\ \A j \in 1..(i - 1) : s[j] # c
    ELSE 0

\* s.split(' ', maxsplit)
RECURSIVE Split(_, _)
Split(s, maxsplit) ==
    IF maxsplit = 0 \/ Find(s, sp) = 0
    THEN <<s>>
    ELSE <<SubSeq(s, 1, Find(s, sp) - 1)>>
         \o Split(SubSeq(s, Find(s, sp) + 1, Len(s)), maxsplit - 1)

\* s.lstrip(), s.rstrip(), s.strip()
RECURSIVE LStrip(_)
LStrip(s) ==
    IF s # <<>> /\ Head(s) \in Whitespace THEN LStrip(Tail(s)) ELSE s

RECURSIVE RStrip(_)
RStrip(s) ==
    IF s # <<>> /\ s[Len(s)] \in Whitespace
    THEN RStrip(SubSeq(s, 1, Len(s) - 1))
    ELSE s

Strip(s) == RStrip(LStrip(s))

\* s.replace(a, b) for a one-letter a and a text b
RECURSIVE Replace(_, _, _)
Replace(s, a, b) ==
    IF s = <<>> THEN <<>>
    ELSE (IF Head(s) = a THEN b ELSE <<Head(s)>>) \o Replace(Tail(s), a, b)

----------------------------------------------------------------------------
(* The DDI table generator, scripts/code_gen_ddi_database.py.              *)

ExportTxt == "export.txt"
HppFile == "isobus_data_dictionary.hpp"
CppFile == "isobus_data_dictionary.cpp"
FileNames == {ExportTxt, HppFile, CppFile}

Absent == [exists |-> FALSE, data |-> <<>>]
File(d) == [exists |-> TRUE, data |-> d]

\* The marker texts the generator looks for.
DDEntity == <<"DD", sp, "Entity">>
CommentMark == <<"Comment:">>
UnitMark == <<"Unit:">>
ResolutionMark == <<"Resolution">>
NotApplicable == <<"n.a.", sp, "-">>
NotDefined == <<"not", sp, "defined", sp, "-", sp, "not", sp, "defined">>

\* The lines an export of the model is made of.
StartLine == <<"DD", sp, "Entity", ":", sp, "1", sp, "Name", nl>>
StartResLine == <<"DD", sp, "Entity", ":", sp, "2", sp, "Resolution", sp, "Name", nl>>
StartShortLine == <<"DD", sp, "Entity", ":", sp, "1", nl>>
CommentLine == <<"Comment:", sp, "DD", sp, "Entity", sp, "1", nl>>
OtherLine == <<"Definition", ":", sp, "Name", nl>>
UnitLine == <<"Unit:", sp, "mm", sp, "-", sp, "Name", nl>>
UnitNALine == <<"Unit:", sp, "n.a.", sp, "-", sp, nl>>
UnitNDLine == <<"Unit:", sp, "not", sp, "defined", sp, "-", sp, "not", sp, "defined", nl>>
UnitTightLine == <<"Unit:", "n.a.", sp, "-", nl>>
UnitBareLine == <<"Unit:", nl>>
ResOneLine == <<"Resolution", ":", sp, "1", nl>>
ResZeroLine == <<"Resolution", ":", sp, "0", nl>>
ResCommaLine == <<"Resolution", ":", sp, "0", ",", "1", nl>>
ResTwoLine == <<"Resolution", ":", sp, "2", nl>>
ResBareLine == <<"Resolution", ":", nl>>

Lines ==
    { StartLine, StartResLine, StartShortLine, CommentLine, OtherLine,
      UnitLine, UnitNALine, UnitNDLine, UnitTightLine, UnitBareLine,
      ResOneLine, ResZeroLine, ResCommaLine, ResTwoLine, ResBareLine }

Exports(n) == UNION { [1..k -> Lines] : k \in 0..n }

\* datetime.today(), as the two texts strftime makes of it
Dates ==
    { [monthDay |-> "December 31", year |-> 2024],
      [monthDay |-> "January 01", year |-> 2025] }

NoFiles == [f \in FileNames |-> Absent]
StaleFiles == [f \in FileNames |-> File(<<[k |-> "stale"]>>)]

\* os.path.exists(name) and os.path.isfile(name): os.remove(name)
RemoveIfFile(f, name) ==
    IF f[name].exists THEN [f EXCEPT ![name] = Absent] ELSE f

\* requests.get(exportURL): the response, or the exception of a failed fetch
requests_get_swallowing(outcome) ==
    [raised |-> FALSE, content |-> IF outcome = "error" THEN <<>> ELSE remote]

requests_get(outcome) ==
    IF outcome = "error"
    THEN [raised |-> TRUE, content |-> <<>>]
    ELSE [raised |-> FALSE, content |-> remote]

\* the condition of the counting pass
CountsAsDDI_AnyMention(line) == Contains(line, DDEntity)

CountsAsDDI(line) ==
    Contains(line, DDEntity) /\ ~Contains(line, CommentMark)

\* numberOfDDIs = 0
InitialCount_Kept(old) == old

InitialCount(old) == 0

RECURSIVE CountDDIs(_, _)
CountDDIs(lines, n) ==
    IF lines = <<>> THEN n
    ELSE CountDDIs(Tail(lines), IF CountsAsDDI(Head(lines)) THEN n + 1 ELSE n)

\* the f-string heads of the two output files
HeaderText(date, n) ==
    [k |-> "hpp", generated |-> <<date.monthDay, date.year>>,
     copyright |-> date.year, size |-> n]

SourceText(date, n) ==
    [k |-> "cpp", generated |-> <<date.monthDay, date.year>>,
     copyright |-> date.year, size |-> n]

\* the condition of the rendering pass
IsEntityLine(line) ==
    Contains(line, DDEntity) /\ ~Contains(line, CommentMark)

\* strippedEntityLine
RECURSIVE StripNewlines(_)
StripNewlines(parts) ==
    IF parts = <<>> THEN <<>>
    ELSE <<Replace(Head(parts), nl, <<>>)>> \o StripNewlines(Tail(parts))

StrippedEntityLine(line) == StripNewlines(Split(Strip(line), 3))

\* One iteration of the rendering loop works on s = [out, pu, ok]: the texts
\* written so far in this iteration, processUnit, and whether no exception
\* was raised.
OnEntity(line, at, s) ==
    IF IsEntityLine(line)
    THEN LET parts == StrippedEntityLine(line)
         IN  IF Len(parts) < 4
             THEN [s EXCEPT !.pu = TRUE, !.ok = FALSE]
             ELSE [s EXCEPT !.pu = TRUE,
                            !.out = Append(@, [k |-> "entity", ddi |-> parts[3],
                                               name |-> parts[4], at |-> at])]
    ELSE s

UnitText_NoNotDefined(rest) ==
    IF Contains(rest, NotApplicable) THEN <<"None">> ELSE rest

UnitText(rest) ==
    LET a == IF Contains(rest, NotApplicable) THEN <<"None">> ELSE rest
    IN  IF Contains(a, NotDefined) THEN <<"None">> ELSE a

OnUnit_KeepFlag(line, at, s) ==
    IF Contains(line, UnitMark) /\ s.pu
    THEN LET entityLine == Split(line, 1)
         IN  IF Len(entityLine) < 2
             THEN [s EXCEPT !.ok = FALSE]
             ELSE [s EXCEPT !.out = Append(@, [k |-> "units",
                                               text |-> Strip(UnitText(entityLine[2])),
                                               at |-> at])]
    ELSE s

OnUnit(line, at, s) ==
    IF Contains(line, UnitMark) /\ s.pu
    THEN LET entityLine == Split(line, 1)
         IN  IF Len(entityLine) < 2
             THEN [s EXCEPT !.ok = FALSE]
             ELSE [s EXCEPT !.pu = FALSE,
                            !.out = Append(@, [k |-> "units",
                                               text |-> Strip(UnitText(entityLine[2])),
                                               at |-> at])]
    ELSE s

ResolutionText(rest) ==
    LET a == Replace(rest, ",", <<".">>)
        b == IF Strip(a) = <<"1">> THEN <<"1", ".", "0">> ELSE a
    IN  IF Strip(b) = <<"0">> THEN <<"0", ".", "0">> ELSE b

OnResolution(line, at, s) ==
    IF Contains(line, ResolutionMark)
    THEN LET entityLine == Split(line, 1)
         IN  IF Len(entityLine) < 2
             THEN [s EXCEPT !.ok = FALSE]
             ELSE [s EXCEPT !.out = Append(@, [k |-> "resolution",
                                               text |-> Strip(ResolutionText(entityLine[2])),
                                               at |-> at])]
    ELSE s

\* the body of the rendering loop: the three ifs in turn, up to an exception
ProcessLine(line, at, pu) ==
    LET s0 == [out |-> <<>>, pu |-> pu, ok |-> TRUE]
        s1 == OnEntity(line, at, s0)
        s2 == IF s1.ok THEN OnUnit(line, at, s1) ELSE s1
    IN  IF s2.ok THEN OnResolution(line, at, s2) ELSE s2

GenIdle ==
    /\ table = <<>> /\ ident = 0 /\ idx = 0 /\ result = <<>>
    /\ tree = {} /\ lib = [exists |-> FALSE, files |-> {}] /\ pruned = {}
    /\ headers = <<>> /\ umbrella = <<>> /\ properties = FALSE /\ patched = {}

Init ==
    /\ pc = "remove"
    /\ remote \in Exports(MaxLines)
    /\ today = [monthDay |-> "December 31", year |-> 2024]
    /\ fs \in {NoFiles, StaleFiles}
    /\ numberOfDDIs = 0 /\ processUnit = FALSE /\ lineNo = 1
    /\ run = 1 /\ prev = [files |-> NoFiles, ran |-> {}] /\ ran = {}
    /\ GenIdle

\* lines 5-13
RemoveStale ==
    /\ pc = "remove"
    /\ fs' = RemoveIfFile(RemoveIfFile(RemoveIfFile(fs, CppFile), HppFile), ExportTxt)
    /\ pc' = "fetch"
    /\ ran' = ran \cup {"remove"}
    /\ UNCHANGED <<remote, today, numberOfDDIs, processUnit, lineNo, run, prev>>
    /\ UNCHANGED <<lookupVars, packVars>>

\* lines 15-19
Fetch ==
    /\ pc = "fetch"
    /\ \E outcome \in {"response", "error"} :
         LET r == requests_get(outcome)
         IN  /\ IF r.raised
                THEN pc' = "aborted" /\ fs' = fs
                ELSE pc' = "count" /\ fs' = [fs EXCEPT ![ExportTxt] = File(r.content)]
             /\ ran' = ran \cup {"fetch", outcome}
    /\ UNCHANGED <<remote, today, numberOfDDIs, processUnit, lineNo, run, prev>>
    /\ UNCHANGED <<lookupVars, packVars>>

\* lines 21-26
CountPass ==
    /\ pc = "count"
    /\ numberOfDDIs' = CountDDIs(fs[ExportTxt].data, InitialCount(numberOfDDIs))
    /\ processUnit' = FALSE
    /\ pc' = "header"
    /\ ran' = ran \cup {"count"}
    /\ UNCHANGED <<remote, today, fs, lineNo, run, prev>>
    /\ UNCHANGED <<lookupVars, packVars>>

\* lines 28-78
WriteHeader ==
    /\ pc = "header"
    /\ fs' = [fs EXCEPT ![HppFile] = File(<<HeaderText(today, numberOfDDIs)>>)]
    /\ pc' = "source"
    /\ ran' = ran \cup {"header"}
    /\ UNCHANGED <<remote, today, numberOfDDIs, processUnit, lineNo, run, prev>>
    /\ UNCHANGED <<lookupVars, packVars>>

\* lines 80-114
WriteSource ==
    /\ pc = "source"
    /\ fs' = [fs EXCEPT ![CppFile] = File(<<SourceText(today, numberOfDDIs)>>)]
    /\ processUnit' = FALSE
    /\ lineNo' = 1
    /\ pc' = "render"
    /\ ran' = ran \cup {"source"}
    /\ UNCHANGED <<remote, today, numberOfDDIs, run, prev>>
    /\ UNCHANGED <<lookupVars, packVars>>

\* lines 115-143, one line of the export
RenderLine ==
    /\ pc = "render"
    /\ lineNo <= Len(fs[ExportTxt].data)
    /\ LET s == ProcessLine(fs[ExportTxt].data[lineNo], lineNo, processUnit)
       IN  /\ fs' = [fs EXCEPT ![CppFile].data = @ \o s.out]
           /\ processUnit' = s.pu
           /\ pc' = IF s.ok THEN "render" ELSE "crashed"
           /\ lineNo' = IF s.ok THEN lineNo + 1 ELSE lineNo
    /\ ran' = ran \cup {"render"}
    /\ UNCHANGED <<remote, today, numberOfDDIs, run, prev>>
    /\ UNCHANGED <<lookupVars, packVars>>

\* lines 146-156
Finish ==
    /\ pc = "render"
    /\ lineNo > Len(fs[ExportTxt].data)
    /\ fs' = [fs EXCEPT ![CppFile].data = Append(@, [k |-> "end"])]
    /\ pc' = "done"
    /\ ran' = ran \cup {"finish"}
    /\ UNCHANGED <<remote, today, numberOfDDIs, processUnit, lineNo, run, prev>>
    /\ UNCHANGED <<lookupVars, packVars>>

Next ==
    \/ RemoveStale
    \/ Fetch
    \/ CountPass
    \/ WriteHeader
    \/ WriteSource
    \/ RenderLine
    \/ Finish

Spec == Init /\ [][Next]_vars

----------------------------------------------------------------------------
(* Running the generator a second time, in a new process, on the same      *)
(* export.  The variables of the script are left as they were: the new     *)
(* process has none of them until the script assigns them.                 *)

Ended == {"done", "aborted", "crashed"}

RerunInit ==
    /\ pc = "remove"
    /\ remote \in Exports(MaxRerunLines)
    /\ today \in Dates
    /\ fs \in {NoFiles, StaleFiles}
    /\ numberOfDDIs = 0 /\ processUnit = FALSE /\ lineNo = 1
    /\ run = 1 /\ prev = [files |-> NoFiles, ran |-> {}] /\ ran = {}
    /\ GenIdle

Rerun ==
    /\ pc \in Ended
    /\ run = 1
    /\ run' = 2
    /\ prev' = [files |-> fs, ran |-> ran]
    /\ today' \in Dates
    /\ pc' = "remove"
    /\ ran' = {}
    /\ UNCHANGED <<remote, fs, numberOfDDIs, processUnit, lineNo>>
    /\ UNCHANGED <<lookupVars, packVars>>

RerunNext ==
    \/ Next
    \/ Rerun

RerunSpec == RerunInit /\ [][RerunNext]_vars

----------------------------------------------------------------------------
(* The lookup of the generated source file, DataDictionary::get_entry,     *)
(* over the array DDI_ENTRIES as compiled.                                 *)

Uint16Max == 65535

DEFAULT_ENTRY ==
    [ddi |-> Uint16Max, name |-> "Unknown", units |-> "Unknown", resolution |-> "0.0f"]

Identifiers == {1, 2, 3, Uint16Max}

Entries ==
    [ddi : {1, 2, Uint16Max}, name : {"A", "B"}, units : {"mm"}, resolution : {"1.0f"}]

Tables == UNION { [1..k -> Entries] : k \in 0..MaxEntries }

\* One pass through the for loop with the index at i: the entry returned, or
\* the index to go on with.
get_entry_step_default_on_mismatch(entries, id, i) ==
    IF i < Len(entries) /\ entries[i + 1].ddi = id
    THEN [returned |-> TRUE, entry |-> entries[i + 1], i |-> i]
    ELSE [returned |-> TRUE, entry |-> DEFAULT_ENTRY, i |-> i]

get_entry_step(entries, id, i) ==
    IF i < Len(entries)
    THEN IF entries[i + 1].ddi = id
         THEN [returned |-> TRUE, entry |-> entries[i + 1], i |-> i]
         ELSE [returned |-> FALSE, entry |-> DEFAULT_ENTRY, i |-> (i + 1) % (Uint16Max + 1)]
    ELSE [returned |-> TRUE, entry |-> DEFAULT_ENTRY, i |-> i]

LookupIdle ==
    /\ remote = <<>> /\ today = [monthDay |-> "December 31", year |-> 2024]
    /\ fs = NoFiles /\ numberOfDDIs = 0 /\ processUnit = FALSE /\ lineNo = 1
    /\ run = 1 /\ prev = [files |-> NoFiles, ran |-> {}] /\ ran = {}
    /\ tree = {} /\ lib = [exists |-> FALSE, files |-> {}] /\ pruned = {}
    /\ headers = <<>> /\ umbrella = <<>> /\ properties = FALSE /\ patched = {}

LookupInit ==
    /\ pc = "get_entry"
    /\ table \in Tables
    /\ ident \in Identifiers
    /\ idx = 0
    /\ result = <<>>
    /\ LookupIdle

LookupStep ==
    /\ pc = "get_entry"
    /\ LET s == get_entry_step(table, ident, idx)
       IN  /\ idx' = s.i
           /\ result' = IF s.returned THEN <<s.entry>> ELSE result
           /\ pc' = IF s.returned THEN "returned" ELSE pc
    /\ UNCHANGED <<table, ident>>
    /\ UNCHANGED <<genVars_rest, packVars>>

LookupNext == LookupStep

LookupSpec == LookupInit /\ [][LookupNext]_vars

----------------------------------------------------------------------------
(* The Arduino library packager, generateArduinoLibrary.py.  A file name   *)
(* is the text <<stem, extension>>, a directory path its parts and "/".    *)

RootDir == <<".">>
IsobusSrc == <<".", "/", "isobus", "/", "src">>
HardwareSrc == <<".", "/", "hardware_integration", "/", "src">>
SketchDir == <<".", "/", "sketch">>
TestDir == <<".", "/", "test">>
ExamplesDir == <<".", "/", "examples", "/", "seeder">>
CMakeDir == <<".", "/", "build", "/", "CMakeFiles">>
LibSrcDir == <<".", "/", "arduino_library", "/", "src">>

AgIsoStackHpp == <<"AgIsoStack", ".hpp">>

\* the files a source tree of the model is chosen from
Candidates ==
    { [dir |-> IsobusSrc, name |-> <<"can_message", ".cpp">>],
      [dir |-> IsobusSrc, name |-> <<"can_message", ".hpp">>],
      [dir |-> IsobusSrc, name |-> <<"event_dispatcher", ".tpp">>],
      [dir |-> IsobusSrc, name |-> <<"isobus_virtual_terminal_server", ".cpp">>],
      [dir |-> IsobusSrc, name |-> <<"isobus_virtual_terminal_server", ".hpp">>],
      [dir |-> HardwareSrc, name |-> <<"can_hardware_interface", ".cpp">>],
      [dir |-> HardwareSrc, name |-> <<"can_hardware_interface", ".hpp">>],
      [dir |-> SketchDir, name |-> AgIsoStackHpp],
      [dir |-> RootDir, name |-> <<"main", ".cpp">>],
      [dir |-> TestDir, name |-> <<"test_helpers", ".hpp">>],
      [dir |-> ExamplesDir, name |-> <<"seeder", ".cpp">>],
      [dir |-> CMakeDir, name |-> <<"CMakeCXXCompilerId", ".cpp">>] }

Trees == { t \in SUBSET Candidates : Cardinality(t) <= MaxTreeFiles }

NoLibrary == [exists |-> FALSE, files |-> {}]
StaleLibrary ==
    [exists |-> TRUE, files |-> {AgIsoStackHpp, <<"socket_can_interface", ".hpp">>}]

\* the literals of lines 88-121, each followed by a comma
PruneListHead ==
    << <<"iop_file_interface", ".cpp">>,
       <<"iop_file_interface", ".hpp">>,
       <<"available_can_drivers", ".hpp">>,
       <<"canal", ".h">>,
       <<"canal_a", ".h">>,
       <<"innomaker_usb2can_windows_plugin", ".hpp">>,
       <<"InnoMakerUsb2CanLib", ".h">>,
       <<"libusb", ".h">>,
       <<"mac_can_pcan_plugin", ".hpp">>,
       <<"mcp2515_can_interface", ".hpp">>,
       <<"pcan_basic_windows_plugin", ".hpp">>,
       <<"PCANBasic", ".h">>,
       <<"PCBUSB", ".h">>,
       <<"socket_can_interface", ".hpp">>,
       <<"spi_hardware_plugin", ".hpp">>,
       <<"spi_interface_esp", ".hpp">>,
       <<"spi_transaction_frame", ".hpp">>,
       <<"toucan_vscp_canal", ".hpp">>,
       <<"twai_plugin", ".hpp">>,
       <<"virtual_can_plugin", ".hpp">>,
       <<"innomaker_usb2can_windows_plugin", ".cpp">>,
       <<"mac_can_pcan_plugin", ".cpp">>,
       <<"mcp2515_can_interface", ".cpp">>,
       <<"pcan_basic_windows_plugin", ".cpp">>,
       <<"socket_can_interface", ".cpp">>,
       <<"spi_interface_esp", ".cpp">>,
       <<"spi_transaction_frame", ".cpp">>,
       <<"toucan_vscp_canal", ".cpp">>,
       <<"twai_plugin", ".cpp">>,
       <<"virtual_can_plugin", ".cpp">>,
       <<"can_hardware_interface", ".hpp">>,
       <<"can_hardware_interface", ".cpp">>,
       <<"socketcand_windows_network_client", ".hpp">>,
       <<"socketcand_windows_network_client", ".cpp">> >>

\* the literals of lines 122-128, with no comma between them
PruneListTail ==
    << <<"isobus_virtual_terminal_objects", ".cpp">>,
       <<"isobus_virtual_terminal_objects", ".hpp">>,
       <<"isobus_virtual_terminal_server_managed_working_set", ".hpp">>,
       <<"isobus_virtual_terminal_server_managed_working_set", ".cpp">>,
       <<"isobus_virtual_terminal_server", ".cpp">>,
       <<"isobus_virtual_terminal_server", ".hpp">>,
       <<"CMakeCXXCompilerId", ".cpp">> >>

\* adjacent string literals are one string
RECURSIVE Concatenated(_)
Concatenated(literals) ==
    IF literals = <<>> THEN <<>> ELSE Head(literals) \o Concatenated(Tail(literals))

filePruneList == PruneListHead \o <<Concatenated(PruneListTail)>>

\* the condition of copyfiles on dirpath
Excluded(dirpath) ==
    \/ Contains(dirpath, <<"test">>)
    \/ Contains(dirpath, <<"examples">>)
    \/ Contains(dirpath, <<"CMakeFiles">>)

\* fnmatch.filter(files, "*" + ext)
fnmatch(name, ext) == name # <<>> /\ name[Len(name)] = ext

\* what copyfiles copies from the directories dirs
CopiedFrom(dirs, ext) ==
    { f.name : f \in { g \in tree : g.dir \in dirs /\ fnmatch(g.name, ext)
                                     /\ ~Excluded(g.dir) } }

TreeDirs == { f.dir : f \in tree } \cup {RootDir}

\* the prune loop, from the i-th entry of the list on
RECURSIVE PruneFrom(_, _)
PruneFrom(files, i) ==
    IF i > Len(filePruneList) THEN files
    ELSE PruneFrom(files \ {filePruneList[i]}, i + 1)

\* glob.glob("./arduino_library/src/*.hpp"), as a set of paths
GlobHeaders_AfterWrite(files) ==
    { LibSrcDir \o <<"/">> \o n : n \in { m \in files \cup {AgIsoStackHpp} : fnmatch(m, ".hpp") } }

GlobHeaders(files) ==
    { LibSrcDir \o <<"/">> \o n : n \in { m \in files : fnmatch(m, ".hpp") } }

GlobSources(files) ==
    { LibSrcDir \o <<"/">> \o n : n \in { m \in files : fnmatch(m, ".cpp") } }

\* os.path.normpath of a path of the form ./a/b/c
normpath(path) ==
    IF Len(path) >= 2 /\ SubSeq(path, 1, 2) = <<".", "/">>
    THEN SubSeq(path, 3, Len(path))
    ELSE path

\* x.replace('arduino_library/src/', '')
RECURSIVE StripLibPrefix(_)
StripLibPrefix(path) ==
    LET prefix == <<"arduino_library", "/", "src", "/">>
    IN  IF path = <<>> THEN <<>>
        ELSE IF Len(path) >= 4 /\ SubSeq(path, 1, 4) = prefix
             THEN StripLibPrefix(SubSeq(path, 5, Len(path)))
             ELSE <<Head(path)>> \o StripLibPrefix(Tail(path))

\* headers = [os.path.normpath(i) for i in glob.glob(...)]
RECURSIVE NormalizedPaths(_)
NormalizedPaths(listing) ==
    IF listing = <<>> THEN <<>>
    ELSE <<normpath(Head(listing))>> \o NormalizedPaths(Tail(listing))

\* strippedHeaders
RECURSIVE StrippedHeaders(_)
StrippedHeaders(paths) ==
    IF paths = <<>> THEN <<>>
    ELSE <<StripLibPrefix(Head(paths))>> \o StrippedHeaders(Tail(paths))

\* the lists a glob may return for a set of paths: each path once, in any order
Listings(paths) ==
    { l \in [1..Cardinality(paths) -> paths] :
        \A i, j \in 1..Cardinality(paths) : l[i] = l[j] => i = j }

PackIdle ==
    /\ remote = <<>> /\ today = [monthDay |-> "December 31", year |-> 2024]
    /\ fs = NoFiles /\ numberOfDDIs = 0 /\ processUnit = FALSE /\ lineNo = 1
    /\ run = 1 /\ prev = [files |-> NoFiles, ran |-> {}] /\ ran = {}
    /\ table = <<>> /\ ident = 0 /\ idx = 0 /\ result = <<>>

PackInit ==
    /\ pc = "clean"
    /\ tree \in Trees
    /\ lib \in {NoLibrary, StaleLibrary}
    /\ pruned = {} /\ headers = <<>> /\ umbrella = <<>>
    /\ properties = FALSE /\ patched = {}
    /\ PackIdle

\* lines 65-77
Clean ==
    /\ pc = "clean"
    /\ lib' = [exists |-> TRUE, files |-> {}]
    /\ pc' = "copy .cpp"
    /\ UNCHANGED <<tree, pruned, headers, umbrella, properties, patched>>
    /\ UNCHANGED <<genVars_rest, lookupVars>>

\* lines 4-12 as called in lines 81-83.  os.walk(".") lists the root first
\* and the other directories in no fixed order, the destination directory
\* among them; early are the directories it lists before the destination.
\* A file found in the destination is copied onto itself, which raises
\* shutil.SameFileError.
CopyFiles ==
    /\ pc \in {"copy .cpp", "copy .hpp", "copy .tpp"}
    /\ LET pattern == CASE pc = "copy .cpp" -> ".cpp"
                        [] pc = "copy .hpp" -> ".hpp"
                        [] OTHER -> ".tpp"
       IN  \E early \in { d \in SUBSET TreeDirs : RootDir \in d } :
             LET before == lib.files \cup CopiedFrom(early, pattern)
             IN  IF \E n \in before : fnmatch(n, pattern) /\ ~Excluded(LibSrcDir)
                 THEN /\ lib' = [lib EXCEPT !.files = before]
                      /\ pc' = "crashed"
                 ELSE /\ lib' = [lib EXCEPT !.files = @ \cup CopiedFrom(TreeDirs, pattern)]
                      /\ pc' = CASE pc = "copy .cpp" -> "copy .hpp"
                                 [] pc = "copy .hpp" -> "copy .tpp"
                                 [] OTHER -> "prune"
    /\ UNCHANGED <<tree, pruned, headers, umbrella, properties, patched>>
    /\ UNCHANGED <<genVars_rest, lookupVars>>

\* lines 85-133
Prune ==
    /\ pc = "prune"
    /\ lib' = [lib EXCEPT !.files = PruneFrom(@, 1)]
    /\ pruned' = lib.files \ PruneFrom(lib.files, 1)
    /\ pc' = "umbrella"
    /\ UNCHANGED <<tree, headers, umbrella, properties, patched>>
    /\ UNCHANGED <<genVars_rest, lookupVars>>

\* lines 135-141, with write_isobus_hpp (lines 14-34)
WriteUmbrella ==
    /\ pc = "umbrella"
    /\ \E listing \in Listings(GlobHeaders(lib.files)) :
         /\ headers' = NormalizedPaths(listing)
         /\ umbrella' = StrippedHeaders(NormalizedPaths(listing))
    /\ lib' = [lib EXCEPT !.files = @ \cup {AgIsoStackHpp}]
    /\ pc' = "properties"
    /\ UNCHANGED <<tree, pruned, properties, patched>>
    /\ UNCHANGED <<genVars_rest, lookupVars>>

\* lines 143-146
WriteProperties ==
    /\ pc = "properties"
    /\ properties' = TRUE
    /\ pc' = "patch"
    /\ UNCHANGED <<tree, lib, pruned, headers, umbrella, patched>>
    /\ UNCHANGED <<genVars_rest, lookupVars>>

\* lines 148-156, with fixup_header_paths (lines 52-63)
PatchPaths ==
    /\ pc = "patch"
    /\ patched' = { headers[i] : i \in 1..Len(headers) }
                  \cup { normpath(p) : p \in GlobSources(lib.files) }
    /\ pc' = "done"
    /\ UNCHANGED <<tree, lib, pruned, headers, umbrella, properties>>
    /\ UNCHANGED <<genVars_rest, lookupVars>>

PackNext ==
    \/ Clean
    \/ CopyFiles
    \/ Prune
    \/ WriteUmbrella
    \/ WriteProperties
    \/ PatchPaths

PackSpec == PackInit /\ [][PackNext]_vars

----------------------------------------------------------------------------
(* What the claims speak of, read off the files the generator wrote.       *)

Export == fs[ExportTxt].data
Cpp == fs[CppFile].data
Hpp == fs[HppFile].data

\* the places of the texts of one kind in the source file
Written(kind) == { i \in 1..Len(Cpp) : Cpp[i].k = kind }

\* a complete array element: { ddi, "name","units", resolutionf },
CompleteAt(i) ==
    /\ i + 2 <= Len(Cpp)
    /\ Cpp[i].k = "entity" /\ Cpp[i + 1].k = "units" /\ Cpp[i + 2].k = "resolution"

CompleteElements == { i \in 1..Len(Cpp) : CompleteAt(i) }

\* every text of the table belongs to a complete element
AllComplete ==
    \A i \in Written("entity") \cup Written("units") \cup Written("resolution") :
        CompleteAt(i) \/ (i > 1 /\ CompleteAt(i - 1)) \/ (i > 2 /\ CompleteAt(i - 2))

RecordStart(line) == Contains(line, DDEntity) /\ ~Contains(line, CommentMark)
RecordStarts == { i \in 1..Len(Export) : RecordStart(Export[i]) }

\* The lines of a well-formed export: a start line names an identifier and a
\* name, a unit or resolution line carries a text after its marker, and no
\* line is of two kinds.
LineKind(line) ==
    LET start == RecordStart(line)
        unit == Contains(line, UnitMark)
        res == Contains(line, ResolutionMark)
    IN  CASE start /\ ~unit /\ ~res /\ Len(Split(Strip(line), 3)) = 4 -> "start"
          [] ~start /\ unit /\ ~res /\ Find(line, sp) # 0 -> "unit"
          [] ~start /\ ~unit /\ res /\ Find(line, sp) # 0 -> "resolution"
          [] ~start /\ ~unit /\ ~res -> "other"
          [] OTHER -> "malformed"

RECURSIVE KindsOf(_)
KindsOf(lines) ==
    IF lines = <<>> THEN <<>>
    ELSE (IF LineKind(Head(lines)) = "other" THEN <<>> ELSE <<LineKind(Head(lines))>>)
         \o KindsOf(Tail(lines))

WellFormed(lines) ==
    LET kinds == KindsOf(lines)
    IN  /\ Len(kinds) % 3 = 0
        /\ \A i \in 1..Len(kinds) :
             kinds[i] = (CASE i % 3 = 1 -> "start" [] i % 3 = 2 -> "unit" [] OTHER -> "resolution")

C2_NoPartialElement == pc = "done" => AllComplete

\* the text a resolution line carries after its marker
Digits == {"0", "1", "2"}
Numeric(text) ==
    /\ text # <<>>
    /\ \A i \in 1..Len(text) : text[i] \in Digits \cup {",", "."}
    /\ text[1] \in Digits /\ text[Len(text)] \in Digits

HasFraction(text) ==
    \E i \in 1..(Len(text) - 1) : text[i] = "." /\ text[i + 1] \in Digits

\* C4: every resolution written for a resolution line that carries a numeric
\* text has a digit after a decimal point.
C4_ResolutionHasFraction ==
    \A i \in Written("resolution") :
        LET line == Export[Cpp[i].at]
        IN  (Find(line, sp) # 0 /\ Numeric(Strip(Split(line, 1)[2])))
                => HasFraction(Cpp[i].text)

\* the unit fields of the claim, read from the one units text the generator
\* writes: the symbol before " - " and the name after it
SeparatorAt(text) ==
    IF \E i \in 1..(Len(text) - 2) : SubSeq(text, i, i + 2) = <<sp, "-", sp>>
    THEN CHOOSE i \in 1..(Len(text) - 2) : SubSeq(text, i, i + 2) = <<sp, "-", sp>>
    ELSE 0
SymbolOf(text) ==
    IF SeparatorAt(text) = 0 THEN <<>> ELSE SubSeq(text, 1, SeparatorAt(text) - 1)
NameOf(text) ==
    IF SeparatorAt(text) = 0 THEN text ELSE SubSeq(text, SeparatorAt(text) + 3, Len(text))

MarksNoUnit(text) == Contains(text, NotApplicable) \/ Contains(text, NotDefined)

LastMark ==
    LET marks == Written("entity") \cup Written("units")
    IN  IF marks = {} THEN "none"
        ELSE Cpp[CHOOSE i \in marks : \A j \in marks : j <= i].k

\* C10: in the rendering pass a unit text is written only for the first unit
\* line after a record-start line: between two unit texts lies a start text,
\* none precedes the first start text, and processUnit is set exactly while a
\* start line has been rendered and no unit line after it.
C10_OneUnitPerRecord ==
    /\ \A i, j \in Written("units") :
         i < j => \E m \in Written("entity") : i < m /\ m < j
    /\ \A j \in Written("units") : \E m \in Written("entity") : m < j
    /\ pc \in {"render", "done"} => (processUnit <=> LastMark = "entity")

C10_Witness ==
    /\ pc = "done"
    /\ \E i \in Written("units") :
         \E n \in (Cpp[i].at + 1)..Len(Export) :
            /\ Contains(Export[n], UnitMark)
            /\ \A j \in Written("units") : Cpp[j].at # n

\* the first entry of the table with the identifier, found without the loop
Matches == { i \in 1..Len(table) : table[i].ddi = ident }
FirstMatch == CHOOSE i \in Matches : \A j \in Matches : i <= j

\* C3: get_entry returns, for an identifier some entry of the table carries,
\* the first such entry in array order, and DEFAULT_ENTRY for any other
\* identifier; its loop never reads past the array.
C3_LookupTotal ==
    /\ idx <= Len(table)
    /\ pc = "returned" =>
         result = IF Matches # {} THEN <<table[FirstMatch]>> ELSE <<DEFAULT_ENTRY>>

C3_Witness ==
    /\ pc = "returned"
    /\ Cardinality(Matches) = 2
    /\ result = <<table[FirstMatch]>>
    /\ FirstMatch > 1
    /\ \E j \in Matches : table[j] # table[FirstMatch]

\* a file without the texts made from datetime.today()
Undated(file) ==
    [exists |-> file.exists,
     data |-> [i \in 1..Len(file.data) |->
                 IF file.data[i].k \in {"hpp", "cpp"}
                 THEN [file.data[i] EXCEPT !.generated = <<>>, !.copyright = 0]
                 ELSE file.data[i]]]

C7_FailedFetchAborts ==
    "error" \in ran =>
        /\ pc = "aborted"
        /\ ran = {"remove", "fetch", "error"}
        /\ \A f \in FileNames : ~fs[f].exists

C7_Witness ==
    /\ "error" \in ran
    /\ run = 2
    /\ \A f \in FileNames : prev.files[f].exists /\ ~fs[f].exists

\* the file names written in the prune list
ListedFilenames ==
    { PruneListHead[i] : i \in 1..Len(PruneListHead) }
        \cup { PruneListTail[i] : i \in 1..Len(PruneListTail) }

\* C8: when the packager has run, no file named in the prune list is left in
\* arduino_library/src.
C8_NoListedFileRemains ==
    pc = "done" => lib.files \cap ListedFilenames = {}

Included == { umbrella[i] : i \in 1..Len(umbrella) }
HeadersIn(files) == { n \in files : fnmatch(n, ".hpp") }
EachIncludedOnce ==
    \A i, j \in 1..Len(umbrella) : umbrella[i] = umbrella[j] => i = j

\* a header named AgIsoStack.hpp that copyfiles takes from the source tree
UmbrellaInTree ==
    \E f \in tree : f.name = AgIsoStackHpp /\ ~Excluded(f.dir)

\* C9, as stated: AgIsoStack.hpp includes each .hpp file left in
\* arduino_library/src after pruning exactly once, and includes neither
\* itself nor a pruned header.
C9_Original ==
    pc = "done" =>
        /\ Included = HeadersIn(lib.files) \ {AgIsoStackHpp}
        /\ EachIncludedOnce
        /\ AgIsoStackHpp \notin Included
        /\ Included \cap pruned = {}

\* C9, amended: AgIsoStack.hpp includes each .hpp file left in
\* arduino_library/src after pruning exactly once and no pruned header; it
\* includes itself exactly when the source tree supplied a header of its name.
C9_UmbrellaListsHeaders ==
    pc = "done" =>
        /\ Included \cup {AgIsoStackHpp} = HeadersIn(lib.files)
        /\ EachIncludedOnce
        /\ AgIsoStackHpp \in Included <=> UmbrellaInTree
        /\ Included \cap pruned = {}

C9_Witness ==
    /\ pc = "done"
    /\ Len(umbrella) = 2
    /\ AgIsoStackHpp \notin Included
    /\ \E n \in pruned : fnmatch(n, ".hpp")

====
